---- MODULE Spec2Model ----
(***************************************************************************)
(* Mendelian-violation classification of STR genotype calls in             *)
(* str_analysis/check_trios_for_mendelian_violations.py.                   *)
(*                                                                         *)
(* An allele is the string ExpansionHunter wrote into the Genotype column, *)
(* modelled as its sequence of decimal digits: membership tests            *)
(* ("x in parent_alleles") compare the strings, distances compare int(x).  *)
(* A confidence interval is an intervaltree Interval(begin, end).          *)
(***************************************************************************)
EXTENDS Integers, Sequences, FiniteSets, TLC

VARIABLES proband_alleles, father_alleles, mother_alleles, is_chrX_locus,
          proband_CIs, father_CIs, mother_CIs,
          i1, i2, pc, mv, mv_ci, ta, assertion, overlap, dist, dist_rev,
          nearest, min_dist, min_dist_ci,
          df, all_rows, remaining, row_index, trio_rows, other_rows,
          calls_file, fam_file, calls_df, fam_df,
          results_rows, counters, counters_ci, warnings, report, cmv

vars == <<proband_alleles, father_alleles, mother_alleles, is_chrX_locus,
          proband_CIs, father_CIs, mother_CIs,
          i1, i2, pc, mv, mv_ci, ta, assertion, overlap, dist, dist_rev,
          nearest, min_dist, min_dist_ci,
          df, all_rows, remaining, row_index, trio_rows, other_rows,
          calls_file, fam_file, calls_df, fam_df,
          results_rows, counters, counters_ci, warnings, report, cmv>>

(***************************************************************************)
(* Bounds of the enumerated inputs.                                        *)
(***************************************************************************)
\* alleles "0" .. str(MaxAllele) in canonical form
MaxAllele == 2
\* alleles 1 .. MaxPadded are also given with a leading zero ("01")
MaxPadded == 1
\* proband lists (alleles or CIs) of 0 .. MaxProbandLen elements
MaxProbandLen == 3
\* interval endpoints 0 .. MaxPos in the classifier inputs
MaxPos == 1
\* interval endpoints 0 .. MaxEnd for the interval primitives
MaxEnd == 4
\* candidate lists of 0 .. MaxCandidates elements for the distance primitives
MaxCandidates == 3
\* calls tables of 0 .. MaxRows rows
MaxRows == 4
\* pedigrees of 0 .. MaxFamRecords individuals with both parents recorded
MaxFamRecords == 1
\* calls files of 0 .. MaxCallLines lines
MaxCallLines == 3
\* pedigree files of 0 .. MaxFamLines lines
MaxFamLines == 2
\* lists of 0 .. MaxTrios trios for compute_mendelian_violations
MaxTrios == 3

\* the number of alleles of a diploid genotype
Diploid == 2

(***************************************************************************)
(* Python values                                                           *)
(***************************************************************************)
None == [kind |-> "None"]
\* the outcome of a call: not made yet, an exception, or a returned value
Pending == [status |-> "pending"]
Raise == [status |-> "raised"]
Return(v) == [status |-> "returned", value |-> v]
Raised(r) == r.status = "raised"
Returned(r) == r.status = "returned"

Abs(x) == IF x < 0 THEN -x ELSE x
Min2(x, y) == IF y < x THEN y ELSE x

\* str(n) for 0 <= n <= 99
Str(n) == IF n < 10 THEN <<n>> ELSE <<n \div 10, n % 10>>

\* int(s) for a string of decimal digits
RECURSIVE int(_)
int(s) == IF Len(s) = 0 THEN 0 ELSE 10 * int(SubSeq(s, 1, Len(s) - 1)) + s[Len(s)]

\* Interval(begin, end)
Interval(b, e) == [begin |-> b, end |-> e]

\* all sequences over S of length lo .. hi
SeqsOf(S, lo, hi) == UNION {[1..n -> S] : n \in lo..hi}

\* "x in xs" on a list
In(x, xs) == \E k \in 1..Len(xs) : xs[k] = x

\* min(xs) of a non-empty list of integers
MinOf(xs) == CHOOSE m \in {xs[k] : k \in 1..Len(xs)} : \A k \in 1..Len(xs) : m <= xs[k]

\* any([...])
any(bs) == \E k \in 1..Len(bs) : bs[k]

(***************************************************************************)
(* Interval primitives                                                     *)
(***************************************************************************)
\* variant: touching intervals do not overlap
intervals_overlap_open(a, b) == ~(a.end <= b.begin \/ b.end <= a.begin)

intervals_overlap(a, b) == ~(a.end < b.begin \/ b.end < a.begin)

\* Interval is intervaltree's (begin, end) tuple. Its methods, as of
\* intervaltree 3, read the interval as half-open, [begin, end):
\*   overlaps(other):    other.begin < self.end and other.end > self.begin
\*   distance_to(other): 0 if self.overlaps(other), else other.begin - self.end
\*                       if self.begin < other.begin, else self.begin - other.end
Interval_overlaps(self, other) == other.begin < self.end /\ other.end > self.begin

Interval_distance_to(self, other) ==
    IF Interval_overlaps(self, other) THEN 0
    ELSE IF self.begin < other.begin THEN other.begin - self.end
    ELSE self.begin - other.end

\* one element of the list that compute_min_distance_mendelian_ci minimises
ci_term(proband_CI, parent_CI) == Abs(Interval_distance_to(proband_CI, parent_CI))

(***************************************************************************)
(* Distance primitives                                                     *)
(***************************************************************************)
\* variant: the difference is taken without abs()
compute_min_distance_mendelian_signed(proband_allele, parent_alleles) ==
    IF Len(parent_alleles) = 0 THEN Raise
    ELSE Return(MinOf([k \in 1..Len(parent_alleles) |->
                          int(proband_allele) - int(parent_alleles[k])]))

\* variant: only the repeats the proband has in excess of the parent count
compute_min_distance_mendelian_excess(proband_allele, parent_alleles) ==
    IF Len(parent_alleles) = 0 THEN Raise
    ELSE Return(MinOf([k \in 1..Len(parent_alleles) |->
                          IF int(proband_allele) > int(parent_alleles[k])
                          THEN int(proband_allele) - int(parent_alleles[k]) ELSE 0]))

compute_min_distance_mendelian(proband_allele, parent_alleles) ==
    IF Len(parent_alleles) = 0 THEN Raise
    ELSE Return(MinOf([k \in 1..Len(parent_alleles) |->
                          Abs(int(proband_allele) - int(parent_alleles[k]))]))

\* variant: min(..., default=0)
compute_min_distance_mendelian_ci_default(proband_CI, parent_CIs) ==
    IF Len(parent_CIs) = 0 THEN Return(0)
    ELSE Return(MinOf([k \in 1..Len(parent_CIs) |-> ci_term(proband_CI, parent_CIs[k])]))

compute_min_distance_mendelian_ci(proband_CI, parent_CIs) ==
    IF Len(parent_CIs) = 0 THEN Raise
    ELSE Return(MinOf([k \in 1..Len(parent_CIs) |-> ci_term(proband_CI, parent_CIs[k])]))

\* variant: of the candidates at the least distance, the last one
get_nearest_parental_allele_last(proband_allele, parent_alleles) ==
    IF Len(parent_alleles) = 0 THEN Raise
    ELSE LET key(x) == Abs(int(proband_allele) - int(x))
             last == CHOOSE k \in 1..Len(parent_alleles) :
                        /\ \A j \in 1..Len(parent_alleles) :
                               key(parent_alleles[k]) <= key(parent_alleles[j])
                        /\ \A j \in (k + 1)..Len(parent_alleles) :
                               key(parent_alleles[j]) > key(parent_alleles[k])
         IN Return(<<parent_alleles[last], key(parent_alleles[last])>>)

get_nearest_parental_allele(proband_allele, parent_alleles) ==
    IF Len(parent_alleles) = 0 THEN Raise
    ELSE LET key(x) == Abs(int(proband_allele) - int(x))
             first == CHOOSE k \in 1..Len(parent_alleles) :
                        /\ \A j \in 1..Len(parent_alleles) :
                               key(parent_alleles[k]) <= key(parent_alleles[j])
                        /\ \A j \in 1..(k - 1) :
                               key(parent_alleles[j]) > key(parent_alleles[k])
             nearest_parental_allele == parent_alleles[first]
         IN Return(<<nearest_parental_allele, key(nearest_parental_allele)>>)

\* a + b and min(a, b) of two results, an exception in either propagating
Plus(a, b) == IF Raised(a) \/ Raised(b) THEN Raise ELSE Return(a.value + b.value)
MinR(a, b) == IF Raised(a) \/ Raised(b) THEN Raise ELSE Return(Min2(a.value, b.value))

\* return ok, distance
Verdict(ok, d) == IF Raised(d) THEN Raise ELSE Return([ok |-> ok, distance |-> d.value])

(***************************************************************************)
(* Violation classifier, exact genotypes                                   *)
(***************************************************************************)
\* variant: the chrX rule also accepts a paternal allele
mendelian_haploid_chrX_either_parent(pa, fa, ma) ==
    Verdict(In(pa[1], fa) \/ In(pa[1], ma), compute_min_distance_mendelian(pa[1], ma))

\* len(proband_alleles) == 1 and is_chrX_locus
mendelian_haploid_chrX(pa, fa, ma) ==
    Verdict(In(pa[1], ma), compute_min_distance_mendelian(pa[1], ma))

\* len(proband_alleles) == 1 and not is_chrX_locus
mendelian_haploid(pa, fa, ma) ==
    Verdict(In(pa[1], fa) \/ In(pa[1], ma),
            MinR(compute_min_distance_mendelian(pa[1], fa),
                 compute_min_distance_mendelian(pa[1], ma)))

\* variant: only the pairing (allele 0 -> father, allele 1 -> mother) is tried
ok_mendelian_diploid_one_pairing(pa, fa, ma) == In(pa[1], fa) /\ In(pa[2], ma)

\* len(proband_alleles) == 2: ok_mendelian
ok_mendelian_diploid(pa, fa, ma) ==
    (In(pa[1], fa) /\ In(pa[2], ma)) \/ (In(pa[2], fa) /\ In(pa[1], ma))

\* variant: only the pairing (allele 0 -> father, allele 1 -> mother) is summed
distance_mendelian_diploid_one_pairing(pa, fa, ma) ==
    Plus(compute_min_distance_mendelian(pa[1], fa),
         compute_min_distance_mendelian(pa[2], ma))

\* variant: the larger of the two pairings' sums
distance_mendelian_diploid_max(pa, fa, ma) ==
    LET a == Plus(compute_min_distance_mendelian(pa[1], fa),
                  compute_min_distance_mendelian(pa[2], ma))
        b == Plus(compute_min_distance_mendelian(pa[2], fa),
                  compute_min_distance_mendelian(pa[1], ma))
    IN IF Raised(a) \/ Raised(b) THEN Raise
       ELSE Return(IF a.value < b.value THEN b.value ELSE a.value)

\* len(proband_alleles) == 2: distance_mendelian
distance_mendelian_diploid(pa, fa, ma) ==
    MinR(Plus(compute_min_distance_mendelian(pa[1], fa),
              compute_min_distance_mendelian(pa[2], ma)),
         Plus(compute_min_distance_mendelian(pa[2], fa),
              compute_min_distance_mendelian(pa[1], ma)))

is_mendelian_violation(pa, fa, ma, chrX) ==
    IF Len(pa) = 1 THEN
        IF chrX THEN mendelian_haploid_chrX(pa, fa, ma) ELSE mendelian_haploid(pa, fa, ma)
    ELSE IF Len(pa) = 2 THEN
        Verdict(ok_mendelian_diploid(pa, fa, ma), distance_mendelian_diploid(pa, fa, ma))
    ELSE Raise

(***************************************************************************)
(* Violation classifier, confidence intervals                              *)
(***************************************************************************)
\* any([intervals_overlap(ci, i) for i in parent_CIs])
overlaps_any(ci, parent_CIs) ==
    any([k \in 1..Len(parent_CIs) |-> intervals_overlap(ci, parent_CIs[k])])

\* variant: the chrX rule also measures the distance to the father's CIs
mendelian_ci_haploid_chrX_either_parent(pcs, fcs, mcs) ==
    Verdict(overlaps_any(pcs[1], mcs),
            MinR(compute_min_distance_mendelian_ci(pcs[1], fcs),
                 compute_min_distance_mendelian_ci(pcs[1], mcs)))

\* len(proband_CIs) == 1 and is_chrX_locus
mendelian_ci_haploid_chrX(pcs, fcs, mcs) ==
    Verdict(overlaps_any(pcs[1], mcs), compute_min_distance_mendelian_ci(pcs[1], mcs))

\* len(proband_CIs) == 1 and not is_chrX_locus
mendelian_ci_haploid(pcs, fcs, mcs) ==
    Verdict(overlaps_any(pcs[1], fcs) \/ overlaps_any(pcs[1], mcs),
            MinR(compute_min_distance_mendelian_ci(pcs[1], fcs),
                 compute_min_distance_mendelian_ci(pcs[1], mcs)))

\* variant: only the pairing (CI 0 -> father, CI 1 -> mother) is tried
mendelian_ci_diploid_one_pairing(pcs, fcs, mcs) ==
    Verdict(overlaps_any(pcs[1], fcs) /\ overlaps_any(pcs[2], mcs),
            Plus(compute_min_distance_mendelian_ci(pcs[1], fcs),
                 compute_min_distance_mendelian_ci(pcs[2], mcs)))

\* len(proband_CIs) == 2
mendelian_ci_diploid(pcs, fcs, mcs) ==
    Verdict((overlaps_any(pcs[1], fcs) /\ overlaps_any(pcs[2], mcs))
                \/ (overlaps_any(pcs[2], fcs) /\ overlaps_any(pcs[1], mcs)),
            MinR(Plus(compute_min_distance_mendelian_ci(pcs[1], fcs),
                      compute_min_distance_mendelian_ci(pcs[2], mcs)),
                 Plus(compute_min_distance_mendelian_ci(pcs[2], fcs),
                      compute_min_distance_mendelian_ci(pcs[1], mcs))))

is_mendelian_violation_with_CI(pcs, fcs, mcs, chrX) ==
    IF Len(pcs) = 1 THEN
        IF chrX THEN mendelian_ci_haploid_chrX(pcs, fcs, mcs)
        ELSE mendelian_ci_haploid(pcs, fcs, mcs)
    ELSE IF Len(pcs) = 2 THEN mendelian_ci_diploid(pcs, fcs, mcs)
    ELSE Raise

(***************************************************************************)
(* Transmission assignment                                                 *)
(***************************************************************************)
\* an allele string and a tuple as values of a results column
Allele(s) == [kind |-> "str", str |-> s]
Tuple(t) == [kind |-> "tuple", items |-> t]

Transmission(ft, mt, pf, pm) ==
    [father_transmitted_allele |-> ft, mother_transmitted_allele |-> mt,
     proband_num_repeats_from_father |-> pf, proband_num_repeats_from_mother |-> pm]

\* len(proband_alleles) == 1 and is_chrX_locus; the (allele, difference)
\* tuple is stored without unpacking
transmitted_haploid_chrX(pa, fa, ma) ==
    LET nearest_maternal_allele == get_nearest_parental_allele(pa[1], ma)
    IN IF Raised(nearest_maternal_allele) THEN Raise
       ELSE Return(Transmission(None, Tuple(nearest_maternal_allele.value),
                                None, Allele(pa[1])))

\* variant: a tie between the parents goes to the father
transmitted_haploid_father_on_tie(pa, fa, ma) ==
    LET p == get_nearest_parental_allele(pa[1], fa)
        m == get_nearest_parental_allele(pa[1], ma)
    IN IF Raised(p) \/ Raised(m) THEN Raise
       ELSE IF Abs(int(p.value[1]) - int(pa[1])) <= Abs(int(m.value[1]) - int(pa[1]))
            THEN Return(Transmission(Allele(p.value[1]), None, Allele(pa[1]), None))
            ELSE Return(Transmission(None, Allele(p.value[1]), None, Allele(pa[1])))

\* len(proband_alleles) == 1 and not is_chrX_locus
transmitted_haploid(pa, fa, ma) ==
    LET p == get_nearest_parental_allele(pa[1], fa)
        m == get_nearest_parental_allele(pa[1], ma)
    IN IF Raised(p) \/ Raised(m) THEN Raise
       ELSE LET nearest_paternal_allele == p.value[1]
                nearest_maternal_allele == m.value[1]
                is_proband_allele_closer_to_paternal_than_to_maternal_allele ==
                    Abs(int(nearest_paternal_allele) - int(pa[1]))
                        < Abs(int(nearest_maternal_allele) - int(pa[1]))
            IN IF is_proband_allele_closer_to_paternal_than_to_maternal_allele
               THEN Return(Transmission(Allele(nearest_paternal_allele), None,
                                        Allele(pa[1]), None))
               ELSE Return(Transmission(None, Allele(nearest_paternal_allele),
                                        None, Allele(pa[1])))

\* variant: the pairing with the larger sum is chosen
transmitted_diploid_larger(pa, fa, ma) ==
    LET p1 == get_nearest_parental_allele(pa[1], fa)
        m1 == get_nearest_parental_allele(pa[1], ma)
        p2 == get_nearest_parental_allele(pa[2], fa)
        m2 == get_nearest_parental_allele(pa[2], ma)
    IN IF Raised(p1) \/ Raised(m1) \/ Raised(p2) \/ Raised(m2) THEN Raise
       ELSE IF m1.value[2] + p2.value[2] > p1.value[2] + m2.value[2]
            THEN Return(Transmission(Allele(p2.value[1]), Allele(m1.value[1]),
                                     Allele(pa[2]), Allele(pa[1])))
            ELSE Return(Transmission(Allele(p1.value[1]), Allele(m2.value[1]),
                                     Allele(pa[1]), Allele(pa[2])))

\* variant: allele 1 is always given to the father, allele 2 to the mother
transmitted_diploid_in_order(pa, fa, ma) ==
    LET p1 == get_nearest_parental_allele(pa[1], fa)
        m2 == get_nearest_parental_allele(pa[2], ma)
    IN IF Raised(p1) \/ Raised(m2) THEN Raise
       ELSE Return(Transmission(Allele(p1.value[1]), Allele(m2.value[1]),
                                Allele(pa[1]), Allele(pa[2])))

\* len(proband_alleles) == 2
transmitted_diploid(pa, fa, ma) ==
    LET p1 == get_nearest_parental_allele(pa[1], fa)
        m1 == get_nearest_parental_allele(pa[1], ma)
        p2 == get_nearest_parental_allele(pa[2], fa)
        m2 == get_nearest_parental_allele(pa[2], ma)
    IN IF Raised(p1) \/ Raised(m1) \/ Raised(p2) \/ Raised(m2) THEN Raise
       ELSE IF m1.value[2] + p2.value[2] < p1.value[2] + m2.value[2]
            THEN Return(Transmission(Allele(p2.value[1]), Allele(m1.value[1]),
                                     Allele(pa[2]), Allele(pa[1])))
            ELSE Return(Transmission(Allele(p1.value[1]), Allele(m2.value[1]),
                                     Allele(pa[1]), Allele(pa[2])))

\* variant: every list of two or more alleles is taken as diploid
determine_transmitted_alleles_two_or_more(pa, fa, ma, chrX) ==
    IF Len(pa) = 1 THEN
        IF chrX THEN transmitted_haploid_chrX(pa, fa, ma) ELSE transmitted_haploid(pa, fa, ma)
    ELSE IF Len(pa) >= 2 THEN transmitted_diploid(pa, fa, ma)
    ELSE Raise

determine_transmitted_alleles(pa, fa, ma, chrX) ==
    IF Len(pa) = 1 THEN
        IF chrX THEN transmitted_haploid_chrX(pa, fa, ma) ELSE transmitted_haploid(pa, fa, ma)
    ELSE IF Len(pa) = 2 THEN transmitted_diploid(pa, fa, ma)
    ELSE Raise

(***************************************************************************)
(* Inputs                                                                  *)
(***************************************************************************)
AlleleStrings == {Str(n) : n \in 0..MaxAllele} \cup {<<0>> \o Str(n) : n \in 1..MaxPadded}

\* proband lists: every list of at most two elements, and every list of two
\* elements extended by copies of its last element up to MaxProbandLen elements
ProbandLists(S) ==
    SeqsOf(S, 0, Diploid)
    \cup {p \o [k \in 1..n |-> p[Diploid]] : p \in [1..Diploid -> S], n \in 1..(MaxProbandLen - Diploid)}

ProbandAlleleLists == ProbandLists(AlleleStrings)
ParentAlleleLists == SeqsOf(AlleleStrings, 0, Diploid)

\* closed intervals [begin, end] with begin <= end
IntervalsUpTo(n) == {iv \in {Interval(b, e) : b \in 0..n, e \in 0..n} : iv.begin <= iv.end}

ProbandCILists == ProbandLists(IntervalsUpTo(MaxPos))
ParentCILists == SeqsOf(IntervalsUpTo(MaxPos), 0, Diploid)

\* the trios of the documented scenarios: <<proband, father, mother>>
ScenarioHaploid == <<(<<Str(17)>>), <<Str(20), Str(21)>>, <<Str(17), Str(19)>> >>
ScenarioMismatch == << <<Str(17), Str(19)>>, <<Str(15), Str(16)>>, <<Str(20), Str(21)>> >>
ScenarioSwapped == << <<Str(17), Str(19)>>, <<Str(19), Str(30)>>, <<Str(17), Str(40)>> >>
ScenarioCI == << <<Interval(15, 19)>>, <<Interval(10, 14)>>, <<Interval(16, 20)>> >>

AlleleTrios == (ProbandAlleleLists \X ParentAlleleLists \X ParentAlleleLists)
                   \cup {ScenarioHaploid, ScenarioMismatch, ScenarioSwapped}
CITrios == (ProbandCILists \X ParentCILists \X ParentCILists) \cup {ScenarioCI}

(***************************************************************************)
(* Classification of one trio: each function is applied to the trio's      *)
(* alleles or CIs, in the order compute_mendelian_violations calls them.    *)
(* The outcome of each call is recorded on its own, so that a call that    *)
(* raises is seen next to what the other calls do with the same input.     *)
(***************************************************************************)
InitResults ==
    /\ mv = Pending /\ mv_ci = Pending /\ ta = Pending /\ assertion = "pending"
    /\ overlap = Pending /\ dist = Pending /\ dist_rev = Pending
    /\ nearest = Pending /\ min_dist = Pending /\ min_dist_ci = Pending
    /\ df = <<>> /\ all_rows = <<>> /\ remaining = <<>> /\ row_index = 0
    /\ trio_rows = <<>> /\ other_rows = <<>>
    /\ calls_file = <<>> /\ fam_file = <<>> /\ calls_df = Pending /\ fam_df = Pending
    /\ results_rows = <<>> /\ counters = <<>> /\ counters_ci = <<>>
    /\ warnings = <<>> /\ report = <<>> /\ cmv = Pending

\* [x] * n
Repeat(x, n) == [k \in 1..n |-> x]

\* the genotypes vary; each allele has the CI of the CI scenario
InitAlleles ==
    \E t \in AlleleTrios :
        /\ proband_alleles = t[1] /\ father_alleles = t[2] /\ mother_alleles = t[3]
        /\ proband_CIs = Repeat(ScenarioCI[1][1], Len(t[1]))
        /\ father_CIs = Repeat(ScenarioCI[2][1], Len(t[2]))
        /\ mother_CIs = Repeat(ScenarioCI[3][1], Len(t[3]))

\* the CIs vary; each CI belongs to an allele of the haploid scenario
InitCIs ==
    \E t \in CITrios :
        /\ proband_CIs = t[1] /\ father_CIs = t[2] /\ mother_CIs = t[3]
        /\ proband_alleles = Repeat(ScenarioHaploid[1][1], Len(t[1]))
        /\ father_alleles = Repeat(ScenarioHaploid[2][1], Len(t[2]))
        /\ mother_alleles = Repeat(ScenarioHaploid[3][1], Len(t[3]))

Init ==
    /\ InitAlleles \/ InitCIs
    /\ is_chrX_locus \in BOOLEAN
    /\ i1 = None /\ i2 = None
    /\ pc = "is_mendelian_violation"
    /\ InitResults

\* the locals and the outcome of compute_mendelian_violations
computing == <<results_rows, counters, counters_ci, warnings, report, cmv>>

\* the two input files and what the parsers made of them
loading == <<calls_file, fam_file, calls_df, fam_df>>

\* the table and the locals of group_rows_by_trio
grouping == <<df, all_rows, remaining, row_index, trio_rows, other_rows>>

\* the outcomes of the calls of the distance primitives
prims == <<nearest, min_dist, min_dist_ci>>

inputs == <<proband_alleles, father_alleles, mother_alleles, is_chrX_locus,
            proband_CIs, father_CIs, mother_CIs, i1, i2>>

IsMendelianViolation ==
    /\ pc = "is_mendelian_violation"
    /\ mv' = is_mendelian_violation(proband_alleles, father_alleles, mother_alleles, is_chrX_locus)
    /\ pc' = "is_mendelian_violation_with_CI"
    /\ UNCHANGED <<inputs, mv_ci, ta, assertion, overlap, dist, dist_rev, prims, grouping, loading, computing>>

IsMendelianViolationWithCI ==
    /\ pc = "is_mendelian_violation_with_CI"
    /\ mv_ci' = is_mendelian_violation_with_CI(proband_CIs, father_CIs, mother_CIs, is_chrX_locus)
    /\ pc' = "determine_transmitted_alleles"
    /\ UNCHANGED <<inputs, mv, ta, assertion, overlap, dist, dist_rev, prims, grouping, loading, computing>>

DetermineTransmittedAlleles ==
    /\ pc = "determine_transmitted_alleles"
    /\ ta' = determine_transmitted_alleles(proband_alleles, father_alleles, mother_alleles, is_chrX_locus)
    /\ pc' = "assert"
    /\ UNCHANGED <<inputs, mv, mv_ci, assertion, overlap, dist, dist_rev, prims, grouping, loading, computing>>

\* if ok_mendelian: assert distance_mendelian == 0
AssertDistance ==
    /\ pc = "assert"
    /\ Returned(mv)
    /\ assertion' = IF mv.value.ok /\ mv.value.distance # 0 THEN "failed" ELSE "passed"
    /\ pc' = "done"
    /\ UNCHANGED <<inputs, mv, mv_ci, ta, overlap, dist, dist_rev, prims, grouping, loading, computing>>

Next == IsMendelianViolation \/ IsMendelianViolationWithCI
            \/ DetermineTransmittedAlleles \/ AssertDistance

Spec == Init /\ [][Next]_vars

(***************************************************************************)
(* The interval primitives applied to a pair of intervals                  *)
(***************************************************************************)
InitInterval ==
    /\ i1 \in IntervalsUpTo(MaxEnd) /\ i2 \in IntervalsUpTo(MaxEnd)
    /\ proband_alleles = <<>> /\ father_alleles = <<>> /\ mother_alleles = <<>>
    /\ proband_CIs = <<>> /\ father_CIs = <<>> /\ mother_CIs = <<>>
    /\ is_chrX_locus = FALSE
    /\ pc = "intervals_overlap"
    /\ InitResults

IntervalsOverlap ==
    /\ pc = "intervals_overlap"
    /\ overlap' = Return(intervals_overlap(i1, i2))
    /\ pc' = "compute_min_distance_mendelian_ci"
    /\ UNCHANGED <<inputs, mv, mv_ci, ta, assertion, dist, dist_rev, prims, grouping, loading, computing>>

\* compute_min_distance_mendelian_ci(i1, [i2])
IntervalDistance ==
    /\ pc = "compute_min_distance_mendelian_ci"
    /\ dist' = compute_min_distance_mendelian_ci(i1, <<i2>>)
    /\ pc' = "compute_min_distance_mendelian_ci reversed"
    /\ UNCHANGED <<inputs, mv, mv_ci, ta, assertion, overlap, dist_rev, prims, grouping, loading, computing>>

\* compute_min_distance_mendelian_ci(i2, [i1])
IntervalDistanceReversed ==
    /\ pc = "compute_min_distance_mendelian_ci reversed"
    /\ dist_rev' = compute_min_distance_mendelian_ci(i2, <<i1>>)
    /\ pc' = "done"
    /\ UNCHANGED <<inputs, mv, mv_ci, ta, assertion, overlap, dist, prims, grouping, loading, computing>>

NextInterval == IntervalsOverlap \/ IntervalDistance \/ IntervalDistanceReversed

SpecInterval == InitInterval /\ [][NextInterval]_vars

(***************************************************************************)
(* The distance primitives applied to one proband allele (or CI) and a     *)
(* list of candidates, held in proband_alleles[1] and mother_alleles       *)
(* (proband_CIs[1] and mother_CIs).                                        *)
(***************************************************************************)
InitPrimitives ==
    /\ \/ \E x \in AlleleStrings, cs \in SeqsOf(AlleleStrings, 0, MaxCandidates) :
            /\ proband_alleles = <<x>> /\ mother_alleles = cs
            /\ proband_CIs = <<ScenarioCI[1][1]>>
            /\ mother_CIs = Repeat(ScenarioCI[3][1], Len(cs))
       \/ \E ci \in IntervalsUpTo(MaxPos), cs \in SeqsOf(IntervalsUpTo(MaxPos), 0, MaxCandidates) :
            /\ proband_CIs = <<ci>> /\ mother_CIs = cs
            /\ proband_alleles = <<ScenarioHaploid[1][1]>>
            /\ mother_alleles = Repeat(ScenarioHaploid[3][1], Len(cs))
    /\ father_alleles = <<>> /\ father_CIs = <<>>
    /\ is_chrX_locus = FALSE
    /\ i1 = None /\ i2 = None
    /\ pc = "compute_min_distance_mendelian"
    /\ InitResults

results == <<mv, mv_ci, ta, assertion, overlap, dist, dist_rev>>

ComputeMinDistanceMendelian ==
    /\ pc = "compute_min_distance_mendelian"
    /\ min_dist' = compute_min_distance_mendelian(proband_alleles[1], mother_alleles)
    /\ pc' = "compute_min_distance_mendelian_ci"
    /\ UNCHANGED <<inputs, results, nearest, min_dist_ci, grouping, loading, computing>>

ComputeMinDistanceMendelianCI ==
    /\ pc = "compute_min_distance_mendelian_ci"
    /\ min_dist_ci' = compute_min_distance_mendelian_ci(proband_CIs[1], mother_CIs)
    /\ pc' = "get_nearest_parental_allele"
    /\ UNCHANGED <<inputs, results, nearest, min_dist, grouping, loading, computing>>

GetNearestParentalAllele ==
    /\ pc = "get_nearest_parental_allele"
    /\ nearest' = get_nearest_parental_allele(proband_alleles[1], mother_alleles)
    /\ pc' = "done"
    /\ UNCHANGED <<inputs, results, min_dist, min_dist_ci, grouping, loading, computing>>

NextPrimitives ==
    ComputeMinDistanceMendelian \/ ComputeMinDistanceMendelianCI \/ GetNearestParentalAllele

SpecPrimitives == InitPrimitives /\ [][NextPrimitives]_vars

(***************************************************************************)
(* Trio grouping: group_rows_by_trio applied to the calls table that main  *)
(* joined with the pedigree.                                               *)
(***************************************************************************)
\* a table cell read with dtype=str, and the missing value
Cell(s) == [kind |-> "str", str |-> s]
NaN == [kind |-> "NaN"]
isna(v) == v.kind = "NaN"

SampleIds == {"kid", "dad", "mum"}
\* <<LocusId, VariantId>>: two variants of one locus
Sites == {<<"L1", "v1">>, <<"L1", "v2">>}
Genotypes == {Cell("17/19"), NaN}

\* the rows of a calls table, in the order of the file
RECURSIVE SetToSeq(_)
SetToSeq(S) == IF S = {} THEN <<>>
               ELSE LET x == CHOOSE x \in S : TRUE IN <<x>> \o SetToSeq(S \ {x})

CallRow(sample, site, genotype) ==
    [SampleId |-> Cell(sample), LocusId |-> Cell(site[1]), VariantId |-> Cell(site[2]),
     Genotype |-> genotype]

Key(row) == <<row.SampleId, row.LocusId, row.VariantId>>

\* calls tables as parse_combined_str_calls_tsv_path returns them: no two rows
\* have the same (SampleId, LocusId, VariantId)
CallsTables ==
    {T \in SUBSET {CallRow(s, site, g) : s \in SampleIds, site \in Sites, g \in Genotypes} :
        /\ Cardinality(T) <= MaxRows
        /\ \A r1, r2 \in T : Key(r1) = Key(r2) => r1 = r2}

\* pedigrees as parse_fam_file returns them: one record per individual, both
\* parents recorded
FamRecords ==
    {r \in [individual_id : SampleIds, father_id : SampleIds, mother_id : SampleIds] :
        Cardinality({r.individual_id, r.father_id, r.mother_id}) = 3}

FamTables ==
    {F \in SUBSET FamRecords :
        /\ Cardinality(F) <= MaxFamRecords
        /\ \A r1, r2 \in F : r1.individual_id = r2.individual_id => r1 = r2}

\* combined_str_calls_df.join(fam_file_df, how="left")
left_join(calls, fam) ==
    [n \in 1..Len(calls) |->
        LET row == calls[n]
            recs == {r \in fam : Cell(r.individual_id) = row.SampleId}
        IN IF recs = {}
           THEN [SampleId |-> row.SampleId, LocusId |-> row.LocusId,
                 VariantId |-> row.VariantId, Genotype |-> row.Genotype,
                 father_id |-> NaN, mother_id |-> NaN]
           ELSE LET r == CHOOSE r \in recs : TRUE
                IN [SampleId |-> row.SampleId, LocusId |-> row.LocusId,
                    VariantId |-> row.VariantId, Genotype |-> row.Genotype,
                    father_id |-> Cell(r.father_id), mother_id |-> Cell(r.mother_id)]]

\* dict.get(key)
Get(d, key) == IF key \in DOMAIN d THEN d[key] ELSE None

InitGroup ==
    /\ \E T \in CallsTables, F \in FamTables : df = left_join(SetToSeq(T), F)
    /\ all_rows = <<>> /\ remaining = <<>> /\ row_index = 1
    /\ trio_rows = <<>> /\ other_rows = <<>>
    /\ proband_alleles = <<>> /\ father_alleles = <<>> /\ mother_alleles = <<>>
    /\ proband_CIs = <<>> /\ father_CIs = <<>> /\ mother_CIs = <<>>
    /\ is_chrX_locus = FALSE
    /\ i1 = None /\ i2 = None
    /\ pc = "cache"
    /\ mv = Pending /\ mv_ci = Pending /\ ta = Pending /\ assertion = "pending"
    /\ overlap = Pending /\ dist = Pending /\ dist_rev = Pending
    /\ nearest = Pending /\ min_dist = Pending /\ min_dist_ci = Pending
    /\ calls_file = <<>> /\ fam_file = <<>> /\ calls_df = Pending /\ fam_df = Pending
    /\ results_rows = <<>> /\ counters = <<>> /\ counters_ci = <<>>
    /\ warnings = <<>> /\ report = <<>> /\ cmv = Pending

\* one iteration of the first loop: cache the row under its key
CacheRow ==
    /\ pc = "cache" /\ row_index <= Len(df)
    /\ all_rows' = IF df[row_index].Genotype.kind # "None"
                   THEN (Key(df[row_index]) :> df[row_index]) @@ all_rows
                   ELSE all_rows
    /\ row_index' = row_index + 1
    /\ UNCHANGED <<inputs, results, prims, pc, df, remaining, trio_rows, other_rows, loading, computing>>

\* the first loop is over: keep the rows with a father_id and a mother_id
FilterRows ==
    /\ pc = "cache" /\ row_index > Len(df)
    /\ remaining' = SelectSeq(df, LAMBDA row : ~isna(row.father_id) /\ ~isna(row.mother_id))
    /\ row_index' = 1
    /\ pc' = "group"
    /\ UNCHANGED <<inputs, results, prims, df, all_rows, trio_rows, other_rows, loading, computing>>

\* the lookup failed for a parent
missing_father_only(father_row, mother_row) == father_row = None /\ mother_row # None

missing_parent(father_row, mother_row) == father_row = None \/ mother_row = None

\* the triple appended to trio_rows
trio_parents_swapped(row, father_row, mother_row) == <<row, mother_row, father_row>>

trio(row, father_row, mother_row) == <<row, father_row, mother_row>>

\* one iteration of the second loop
GroupRow ==
    /\ pc = "group" /\ row_index <= Len(remaining)
    /\ LET row == remaining[row_index]
           father_row == Get(all_rows, <<row.father_id, row.LocusId, row.VariantId>>)
           mother_row == Get(all_rows, <<row.mother_id, row.LocusId, row.VariantId>>)
       IN IF missing_parent(father_row, mother_row)
          THEN /\ other_rows' = Append(other_rows, row)
               /\ UNCHANGED trio_rows
          ELSE /\ trio_rows' = Append(trio_rows, trio(row, father_row, mother_row))
               /\ UNCHANGED other_rows
    /\ row_index' = row_index + 1
    /\ UNCHANGED <<inputs, results, prims, pc, df, all_rows, remaining, loading, computing>>

\* return trio_rows, other_rows
ReturnGroups ==
    /\ pc = "group" /\ row_index > Len(remaining)
    /\ pc' = "done"
    /\ UNCHANGED <<inputs, results, prims, grouping, loading, computing>>

NextGroup == CacheRow \/ FilterRows \/ GroupRow \/ ReturnGroups

SpecGroup == InitGroup /\ [][NextGroup]_vars

(***************************************************************************)
(* Loading: main parses the calls table and the pedigree, joins them and    *)
(* groups the rows by trio.                                                 *)
(***************************************************************************)
\* index.duplicated(): the positions whose key occurred at an earlier position
duplicated(keys) == {n \in DOMAIN keys : \E j \in 1..(n - 1) : keys[j] = keys[n]}

\* raises ValueError if the index has a key more than once
check_for_duplicate_keys(keys) ==
    LET num_duplicate_keys == Cardinality(duplicated(keys))
    IN IF num_duplicate_keys > 0 THEN Raise ELSE Return(None)

\* the rows at the positions in keep, in their order
RECURSIVE Take(_, _)
Take(rows, keep) ==
    IF Len(rows) = 0 THEN <<>>
    ELSE Take(SubSeq(rows, 1, Len(rows) - 1), keep)
             \o (IF Len(rows) \in keep THEN <<rows[Len(rows)]>> ELSE <<>>)

\* DataFrame.drop_duplicates(): the first of equal rows is kept
drop_duplicates(rows) == Take(rows, DOMAIN rows \ duplicated(rows))

parse_combined_str_calls_tsv_path(file) ==
    IF Raised(check_for_duplicate_keys([n \in DOMAIN file |-> Key(file[n])])) THEN Raise
    ELSE Return(file)

parse_fam_file(file) ==
    LET unique == drop_duplicates(file)
        with_parents == SelectSeq(unique, LAMBDA r : ~isna(r.father_id) /\ ~isna(r.mother_id))
        fam_file_df == SelectSeq(with_parents,
                                 LAMBDA r : r.father_id # Cell("0") /\ r.mother_id # Cell("0"))
    IN IF Raised(check_for_duplicate_keys([n \in DOMAIN fam_file_df |->
                                              fam_file_df[n].individual_id]))
       THEN Raise
       ELSE Return(fam_file_df)

\* fam_file_df.set_index("individual_id")
fam_index(fam_file_df) ==
    {[individual_id |-> fam_file_df[n].individual_id,
      father_id |-> fam_file_df[n].father_id.str,
      mother_id |-> fam_file_df[n].mother_id.str] : n \in DOMAIN fam_file_df}

\* the lines of a calls file: the trio at one variant, and the proband at a
\* second variant
CallLines ==
    {CallRow(s, <<"L1", "v1">>, Cell("17/19")) : s \in SampleIds}
    \cup {CallRow("kid", <<"L1", "v2">>, Cell("17/19"))}

\* the lines of a .fam file: the proband with each parent given, "0" or
\* missing, the proband with the parents exchanged, and the father as a founder
FamLines ==
    {[individual_id |-> "kid", father_id |-> f, mother_id |-> m] :
        f \in {Cell("dad"), Cell("0"), NaN}, m \in {Cell("mum"), Cell("0"), NaN}}
    \cup {[individual_id |-> "kid", father_id |-> Cell("mum"), mother_id |-> Cell("dad")],
          [individual_id |-> "dad", father_id |-> Cell("0"), mother_id |-> Cell("0")]}

InitLoad ==
    /\ calls_file \in SeqsOf(CallLines, 0, MaxCallLines)
    /\ fam_file \in SeqsOf(FamLines, 0, MaxFamLines)
    /\ calls_df = Pending /\ fam_df = Pending
    /\ df = <<>> /\ all_rows = <<>> /\ remaining = <<>> /\ row_index = 0
    /\ trio_rows = <<>> /\ other_rows = <<>>
    /\ proband_alleles = <<>> /\ father_alleles = <<>> /\ mother_alleles = <<>>
    /\ proband_CIs = <<>> /\ father_CIs = <<>> /\ mother_CIs = <<>>
    /\ is_chrX_locus = FALSE
    /\ i1 = None /\ i2 = None
    /\ pc = "parse_combined_str_calls_tsv_path"
    /\ mv = Pending /\ mv_ci = Pending /\ ta = Pending /\ assertion = "pending"
    /\ overlap = Pending /\ dist = Pending /\ dist_rev = Pending
    /\ nearest = Pending /\ min_dist = Pending /\ min_dist_ci = Pending
    /\ results_rows = <<>> /\ counters = <<>> /\ counters_ci = <<>>
    /\ warnings = <<>> /\ report = <<>> /\ cmv = Pending

ParseCombinedStrCallsTsvPath ==
    /\ pc = "parse_combined_str_calls_tsv_path"
    /\ calls_df' = parse_combined_str_calls_tsv_path(calls_file)
    /\ pc' = IF Raised(calls_df') THEN "failed" ELSE "parse_fam_file"
    /\ UNCHANGED <<inputs, results, prims, grouping, calls_file, fam_file, fam_df, computing>>

ParseFamFile ==
    /\ pc = "parse_fam_file"
    /\ fam_df' = parse_fam_file(fam_file)
    /\ pc' = IF Raised(fam_df') THEN "failed" ELSE "join"
    /\ UNCHANGED <<inputs, results, prims, grouping, calls_file, fam_file, calls_df, computing>>

\* the left join; group_rows_by_trio is entered
JoinFamFile ==
    /\ pc = "join"
    /\ df' = left_join(calls_df.value, fam_index(fam_df.value))
    /\ row_index' = 1
    /\ pc' = "cache"
    /\ UNCHANGED <<inputs, results, prims, loading, all_rows, remaining, trio_rows, other_rows, computing>>

NextLoad == ParseCombinedStrCallsTsvPath \/ ParseFamFile \/ JoinFamFile
                \/ CacheRow \/ FilterRows \/ GroupRow \/ ReturnGroups

SpecLoad == InitLoad /\ [][NextLoad]_vars

(***************************************************************************)
(* compute_mendelian_violations: the trios are classified one after the     *)
(* other. A string of the table is the sequence of its characters.          *)
(***************************************************************************)
DigitChars == <<"0", "1", "2", "3", "4", "5", "6", "7", "8", "9">>

IsDigits(s) ==
    /\ Len(s) > 0
    /\ \A k \in DOMAIN s : \E d \in DOMAIN DigitChars : DigitChars[d] = s[k]

\* the decimal digits of a string of digit characters
digits(s) == [k \in DOMAIN s |-> (CHOOSE d \in DOMAIN DigitChars : DigitChars[d] = s[k]) - 1]

\* int(s) of a string of the table: ValueError unless s is a string of digits
parse_int(s) == IF IsDigits(s) THEN Return(int(digits(s))) ELSE Raise

\* s.split(sep)
RECURSIVE split(_, _)
split(s, sep) ==
    IF \E k \in DOMAIN s : s[k] = sep
    THEN LET k == CHOOSE k \in DOMAIN s : s[k] = sep /\ \A j \in 1..(k - 1) : s[j] # sep
         IN <<SubSeq(s, 1, k - 1)>> \o split(SubSeq(s, k + 1, Len(s)), sep)
    ELSE <<s>>

\* row["Genotype"].split("/"), each allele as its digits
split_genotype(row) ==
    LET tokens == split(row.Genotype, "/") IN [k \in DOMAIN tokens |-> digits(tokens[k])]

\* Interval(*[int(i) for i in ci.split("-")]): begin and end are required, a
\* third argument is the interval's data, a fourth is a TypeError
parse_CI(ci) ==
    LET parts == split(ci, "-")
        ints == [k \in DOMAIN parts |-> parse_int(parts[k])]
    IN IF \E k \in DOMAIN ints : Raised(ints[k]) THEN Raise
       ELSE IF Len(ints) \notin {2, 3} THEN Raise
       ELSE Return(Interval(ints[1].value, ints[2].value))

\* [Interval(...) for ci in row["GenotypeConfidenceInterval"].split("/")]
parse_CIs(row) ==
    LET cis == split(row.GenotypeConfidenceInterval, "/")
        parsed == [k \in DOMAIN cis |-> parse_CI(cis[k])]
    IN IF \E k \in DOMAIN parsed : Raised(parsed[k]) THEN Raise
       ELSE Return([k \in DOMAIN parsed |-> parsed[k].value])

\* str_analysis.utils.misc_utils.parse_interval("chr1:100-200"):
\* (chrom, start, end), ValueError if the span is not two integers
parse_interval(interval_string) ==
    LET tokens == split(interval_string, ":")
        span == split(tokens[Len(tokens)], "-")
    IN IF Len(span) # 2 THEN Raise
       ELSE IF Raised(parse_int(span[1])) \/ Raised(parse_int(span[2])) THEN Raise
       ELSE Return(<<SubSeq(tokens, 1, Len(tokens) - 1),
                     parse_int(span[1]).value, parse_int(span[2]).value>>)

\* the key of counters and counters_ci
counter_name(proband_row) == <<proband_row.LocusId, proband_row.RepeatUnit>>

\* variant: a span that is not a multiple of the repeat unit is an error
region_warning_fatal(proband_row) ==
    LET region == parse_interval(proband_row.ReferenceRegion)
    IN IF Raised(region) \/ Len(proband_row.RepeatUnit) = 0 THEN Raise
       ELSE IF (region.value[3] - region.value[2]) % Len(proband_row.RepeatUnit) # 0 THEN Raise
       ELSE Return(FALSE)

\* parse_interval and the test of the span: whether the warning is printed
region_warning(proband_row) ==
    LET region == parse_interval(proband_row.ReferenceRegion)
    IN IF Raised(region) \/ Len(proband_row.RepeatUnit) = 0 THEN Raise
       ELSE Return((region.value[3] - region.value[2]) % Len(proband_row.RepeatUnit) # 0)

\* variant: the distance is added to that of the row appended before
results_row_running_total(proband_row, father_row, mother_row, m, m_ci, t) ==
    [LocusId |-> <<proband_row.LocusId, proband_row.VariantId>>,
     ReferenceRegion |-> proband_row.ReferenceRegion,
     VariantId |-> proband_row.VariantId,
     RepeatUnit |-> proband_row.RepeatUnit,
     RepeatUnitLength |-> Len(proband_row.RepeatUnit),
     IsMendelianViolation |-> ~m.ok,
     IsMendelianViolationCI |-> ~m_ci.ok,
     MendelianViolationDistance |->
         m.distance + (IF Len(results_rows) = 0 THEN 0
                       ELSE results_rows[Len(results_rows)].MendelianViolationDistance),
     MendelianViolationDistanceCI |-> m_ci.distance,
     MendelianViolationSummary |-> IF ~m_ci.ok THEN "MV-CI!" ELSE IF ~m.ok THEN "MV" ELSE "ok",
     ProbandGenotype |-> proband_row.Genotype,
     ProbandGenotypeCI |-> proband_row.GenotypeConfidenceInterval,
     FatherGenotype |-> father_row.Genotype,
     FatherGenotypeCI |-> father_row.GenotypeConfidenceInterval,
     MotherGenotype |-> mother_row.Genotype,
     MotherGenotypeCI |-> mother_row.GenotypeConfidenceInterval,
     ProbandSampleId |-> proband_row.SampleId,
     FatherSampleId |-> father_row.SampleId,
     MotherSampleId |-> mother_row.SampleId,
     FatherTransmittedAllele |-> t.father_transmitted_allele,
     MotherTransmittedAllele |-> t.mother_transmitted_allele,
     ProbandNumRepeatsFromFather |-> t.proband_num_repeats_from_father,
     ProbandNumRepeatsFromMother |-> t.proband_num_repeats_from_mother]

\* the dict appended to results_rows, m, m_ci and t being what
\* is_mendelian_violation, is_mendelian_violation_with_CI and
\* determine_transmitted_alleles returned
results_row(proband_row, father_row, mother_row, m, m_ci, t) ==
    [LocusId |-> <<proband_row.LocusId, proband_row.VariantId>>,
     ReferenceRegion |-> proband_row.ReferenceRegion,
     VariantId |-> proband_row.VariantId,
     RepeatUnit |-> proband_row.RepeatUnit,
     RepeatUnitLength |-> Len(proband_row.RepeatUnit),
     IsMendelianViolation |-> ~m.ok,
     IsMendelianViolationCI |-> ~m_ci.ok,
     MendelianViolationDistance |-> m.distance,
     MendelianViolationDistanceCI |-> m_ci.distance,
     MendelianViolationSummary |-> IF ~m_ci.ok THEN "MV-CI!" ELSE IF ~m.ok THEN "MV" ELSE "ok",
     ProbandGenotype |-> proband_row.Genotype,
     ProbandGenotypeCI |-> proband_row.GenotypeConfidenceInterval,
     FatherGenotype |-> father_row.Genotype,
     FatherGenotypeCI |-> father_row.GenotypeConfidenceInterval,
     MotherGenotype |-> mother_row.Genotype,
     MotherGenotypeCI |-> mother_row.GenotypeConfidenceInterval,
     ProbandSampleId |-> proband_row.SampleId,
     FatherSampleId |-> father_row.SampleId,
     MotherSampleId |-> mother_row.SampleId,
     FatherTransmittedAllele |-> t.father_transmitted_allele,
     MotherTransmittedAllele |-> t.mother_transmitted_allele,
     ProbandNumRepeatsFromFather |-> t.proband_num_repeats_from_father,
     ProbandNumRepeatsFromMother |-> t.proband_num_repeats_from_mother]

\* the body of the loop for one trio: an exception, or the results row and
\* whether the warning about the reference region was printed
classify_trio(proband_row, father_row, mother_row) ==
    LET pa == split_genotype(proband_row)
        fa == split_genotype(father_row)
        ma == split_genotype(mother_row)
        pcs == parse_CIs(proband_row)
        fcs == parse_CIs(father_row)
        mcs == parse_CIs(mother_row)
        chrX == In("X", proband_row.ReferenceRegion)
    IN IF ~(Len(pa) \in {1, 2} /\ Len(fa) \in {1, 2} /\ Len(ma) \in {1, 2}) THEN Raise
       ELSE IF Raised(pcs) \/ Raised(fcs) \/ Raised(mcs) THEN Raise
       ELSE LET m == is_mendelian_violation(pa, fa, ma, chrX)
                m_ci == is_mendelian_violation_with_CI(pcs.value, fcs.value, mcs.value, chrX)
                t == determine_transmitted_alleles(pa, fa, ma, chrX)
                warning == region_warning(proband_row)
            IN IF Raised(m) \/ Raised(m_ci) \/ Raised(t) THEN Raise
               ELSE IF m.value.ok /\ m.value.distance # 0 THEN Raise
               ELSE IF Raised(warning) THEN Raise
               ELSE Return([results_row |-> results_row(proband_row, father_row, mother_row,
                                                        m.value, m_ci.value, t.value),
                            warning |-> warning.value])

\* counters[name] += 1 on a defaultdict(int), which keeps the order of insertion
increment(d, name) ==
    IF \E k \in DOMAIN d : d[k].name = name
    THEN [k \in DOMAIN d |-> IF d[k].name = name THEN [name |-> name, c |-> d[k].c + 1] ELSE d[k]]
    ELSE Append(d, [name |-> name, c |-> 1])

\* sorted(counters.items(), key=lambda t: -t[1]): stable, largest count first
RECURSIVE sorted_by_count(_)
sorted_by_count(items) ==
    IF Len(items) = 0 THEN <<>>
    ELSE LET k == CHOOSE k \in DOMAIN items :
                      /\ \A j \in DOMAIN items : items[j].c <= items[k].c
                      /\ \A j \in 1..(k - 1) : items[j].c < items[k].c
         IN <<items[k]>> \o sorted_by_count(SubSeq(items, 1, k - 1)
                                              \o SubSeq(items, k + 1, Len(items)))

\* f"{100*float(c)/n:0.0f}": the quotient rounded to the nearest integer, a
\* half to the even one
percent(c, n) ==
    LET q == (100 * c) \div n
        r == (100 * c) % n
    IN IF 2 * r < n THEN q
       ELSE IF 2 * r > n THEN q + 1
       ELSE IF q % 2 = 0 THEN q ELSE q + 1

\* the lines printed for a dict of counters
report_lines(d, n) ==
    LET items == sorted_by_count(d)
    IN [k \in DOMAIN items |->
           [name |-> items[k].name, c |-> items[k].c, percent |-> percent(items[k].c, n)]]

\* ReferenceRegion and RepeatUnit values: a span of 9 = 3 * len("CAG") base
\* pairs, a span of 10, and a span of 9 on chrX
RegionExact == <<"c", "h", "r", "1", ":", "0", "-", "9">>
RegionInexact == <<"c", "h", "r", "1", ":", "0", "-", "1", "0">>
RegionChrX == <<"c", "h", "r", "X", ":", "0", "-", "9">>
RepeatUnitCAG == <<"C", "A", "G">>

\* <<Genotype, GenotypeConfidenceInterval>> of proband, father and mother
\* 17/19 from 17/20 and 19/21
CallsConsistent ==
    <<<<<<"1", "7", "/", "1", "9">>, <<"1", "6", "-", "1", "8", "/", "1", "8", "-", "2", "0">>>>,
      <<<<"1", "7", "/", "2", "0">>, <<"1", "6", "-", "1", "8", "/", "1", "9", "-", "2", "1">>>>,
      <<<<"1", "9", "/", "2", "1">>, <<"1", "8", "-", "2", "0", "/", "2", "0", "-", "2", "2">>>>>>
\* 17/19 from 15/16 and 20/21, the CIs apart as well
CallsMismatch ==
    <<<<<<"1", "7", "/", "1", "9">>, <<"1", "7", "-", "1", "8", "/", "1", "9", "-", "2", "0">>>>,
      <<<<"1", "5", "/", "1", "6">>, <<"1", "4", "-", "1", "5", "/", "1", "5", "-", "1", "6">>>>,
      <<<<"2", "0", "/", "2", "1">>, <<"2", "1", "-", "2", "2", "/", "2", "2", "-", "2", "3">>>>>>
\* 17/19 from 15/16 and 20/21, the CIs overlapping
CallsMismatchWithinCI ==
    <<<<<<"1", "7", "/", "1", "9">>, <<"1", "6", "-", "1", "8", "/", "1", "8", "-", "2", "0">>>>,
      <<<<"1", "5", "/", "1", "6">>, <<"1", "5", "-", "1", "6", "/", "1", "6", "-", "1", "7">>>>,
      <<<<"2", "0", "/", "2", "1">>, <<"2", "0", "-", "2", "1", "/", "2", "1", "-", "2", "2">>>>>>
\* 17 from 20/21 and 17/19
CallsHaploid ==
    <<<<<<"1", "7">>, <<"1", "6", "-", "1", "8">>>>,
      <<<<"2", "0", "/", "2", "1">>, <<"1", "9", "-", "2", "1", "/", "2", "0", "-", "2", "2">>>>,
      <<<<"1", "7", "/", "1", "9">>, <<"1", "6", "-", "1", "8", "/", "1", "8", "-", "2", "0">>>>>>
\* a proband genotype of three alleles
CallsThreeAlleles ==
    <<<<<<"1", "7", "/", "1", "9", "/", "2", "1">>, <<"1", "6", "-", "1", "8", "/", "1", "8", "-", "2", "0", "/", "2", "0", "-", "2", "2">>>>,
      <<<<"1", "7", "/", "2", "0">>, <<"1", "6", "-", "1", "8", "/", "1", "9", "-", "2", "1">>>>,
      <<<<"1", "9", "/", "2", "1">>, <<"1", "8", "-", "2", "0", "/", "2", "0", "-", "2", "2">>>>>>
\* a proband CI that is not begin-end
CallsUnparseableCI ==
    <<<<<<"1", "7", "/", "1", "9">>, <<"1", "6", "/", "1", "8">>>>,
      <<<<"1", "7", "/", "2", "0">>, <<"1", "6", "-", "1", "8", "/", "1", "9", "-", "2", "1">>>>,
      <<<<"1", "9", "/", "2", "1">>, <<"1", "8", "-", "2", "0", "/", "2", "0", "-", "2", "2">>>>>>

TrioRow(sample, locus, call, region) ==
    [SampleId |-> sample, LocusId |-> locus, VariantId |-> locus,
     Genotype |-> call[1], GenotypeConfidenceInterval |-> call[2],
     ReferenceRegion |-> region, RepeatUnit |-> RepeatUnitCAG]

Trio(locus, c, region) ==
    <<TrioRow("kid", locus, c[1], region), TrioRow("dad", locus, c[2], region),
      TrioRow("mum", locus, c[3], region)>>

\* the trios given to compute_mendelian_violations
TrioInputs ==
    {Trio("L1", c, region) : c \in {CallsConsistent, CallsMismatch},
                             region \in {RegionExact, RegionInexact}}
    \cup {Trio("L1", CallsMismatchWithinCI, RegionExact),
          Trio("L1", CallsThreeAlleles, RegionExact),
          Trio("L2", CallsHaploid, RegionChrX),
          Trio("L2", CallsUnparseableCI, RegionExact)}

InitCompute ==
    /\ trio_rows \in SeqsOf(TrioInputs, 0, MaxTrios)
    /\ row_index = 1
    /\ results_rows = <<>> /\ counters = <<>> /\ counters_ci = <<>>
    /\ warnings = <<>> /\ report = <<>> /\ cmv = Pending
    /\ df = <<>> /\ all_rows = <<>> /\ remaining = <<>> /\ other_rows = <<>>
    /\ calls_file = <<>> /\ fam_file = <<>> /\ calls_df = Pending /\ fam_df = Pending
    /\ proband_alleles = <<>> /\ father_alleles = <<>> /\ mother_alleles = <<>>
    /\ proband_CIs = <<>> /\ father_CIs = <<>> /\ mother_CIs = <<>>
    /\ is_chrX_locus = FALSE
    /\ i1 = None /\ i2 = None
    /\ pc = "classify"
    /\ mv = Pending /\ mv_ci = Pending /\ ta = Pending /\ assertion = "pending"
    /\ overlap = Pending /\ dist = Pending /\ dist_rev = Pending
    /\ nearest = Pending /\ min_dist = Pending /\ min_dist_ci = Pending

\* one iteration of the loop over trio_rows; an exception ends the function
ClassifyTrio ==
    /\ pc = "classify" /\ row_index <= Len(trio_rows)
    /\ LET proband_row == trio_rows[row_index][1]
           outcome == classify_trio(proband_row, trio_rows[row_index][2], trio_rows[row_index][3])
       IN IF Raised(outcome)
          THEN /\ cmv' = Raise
               /\ pc' = "failed"
               /\ UNCHANGED <<results_rows, counters, counters_ci, warnings, row_index>>
          ELSE /\ results_rows' = Append(results_rows, outcome.value.results_row)
               /\ counters' = IF outcome.value.results_row.IsMendelianViolation
                              THEN increment(counters, counter_name(proband_row))
                              ELSE counters
               /\ counters_ci' = IF outcome.value.results_row.IsMendelianViolationCI
                                 THEN increment(counters_ci, counter_name(proband_row))
                                 ELSE counters_ci
               /\ warnings' = IF outcome.value.warning
                              THEN Append(warnings, proband_row.ReferenceRegion)
                              ELSE warnings
               /\ row_index' = row_index + 1
               /\ UNCHANGED <<cmv, pc>>
    /\ UNCHANGED <<inputs, results, prims, loading, report,
                   df, all_rows, remaining, trio_rows, other_rows>>

\* the loop is over: the counters are printed and the results rows returned
ReportCounters ==
    /\ pc = "classify" /\ row_index > Len(trio_rows)
    /\ report' = [exact |-> report_lines(counters, Len(trio_rows)),
                  ci |-> report_lines(counters_ci, Len(trio_rows))]
    /\ cmv' = Return(results_rows)
    /\ pc' = "returned"
    /\ UNCHANGED <<inputs, results, prims, loading, grouping,
                   results_rows, counters, counters_ci, warnings>>

NextCompute == ClassifyTrio \/ ReportCounters

SpecCompute == InitCompute /\ [][NextCompute]_vars

(***************************************************************************)
(* Properties                                                              *)
(***************************************************************************)
\* the elements of a list
Elems(xs) == {xs[k] : k \in 1..Len(xs)}

\* |int(x) - int(y)| of two allele strings
Diff(x, y) == Abs(int(x) - int(y))

\* the least element of a non-empty set of integers
Least(S) == CHOOSE m \in S : \A x \in S : m <= x

MvCalled == mv.status # "pending"
MvCiCalled == mv_ci.status # "pending"
TaCalled == ta.status # "pending"
NonEmptyParents == Len(father_alleles) > 0 /\ Len(mother_alleles) > 0

\* C1: for a two-allele proband and non-empty parent lists, ok is true
\* exactly when proband[0] is a father allele and proband[1] a mother allele,
\* or proband[1] is a father allele and proband[0] a mother allele.
C1_OkIffEitherPairing ==
    (MvCalled /\ Len(proband_alleles) = 2 /\ NonEmptyParents) =>
        /\ Returned(mv)
        /\ mv.value.ok <=>
              \/ proband_alleles[1] \in Elems(father_alleles)
                   /\ proband_alleles[2] \in Elems(mother_alleles)
              \/ proband_alleles[2] \in Elems(father_alleles)
                   /\ proband_alleles[1] \in Elems(mother_alleles)

\* ok = true is returned for a trio that only the swapped pairing matches
C1_Witness ==
    /\ MvCalled /\ Len(proband_alleles) = 2 /\ NonEmptyParents
    /\ Returned(mv) /\ mv.value.ok
    /\ ~(proband_alleles[1] \in Elems(father_alleles)
           /\ proband_alleles[2] \in Elems(mother_alleles))
    /\ proband_alleles[2] \in Elems(father_alleles)
    /\ proband_alleles[1] \in Elems(mother_alleles)

\* the summed distances of every choice of parental alleles, in both pairings
PairingSums ==
    {Diff(proband_alleles[1], f) + Diff(proband_alleles[2], m) :
        f \in Elems(father_alleles), m \in Elems(mother_alleles)}
    \cup {Diff(proband_alleles[2], f) + Diff(proband_alleles[1], m) :
        f \in Elems(father_alleles), m \in Elems(mother_alleles)}

\* C2: for a two-allele proband the distance is the minimum over the two
\* pairings of the sum of each proband allele's minimum absolute difference
\* to the alleles of the parent it is paired with.
C2_DistanceIsMinOverPairings ==
    (MvCalled /\ Len(proband_alleles) = 2 /\ NonEmptyParents) =>
        /\ Returned(mv)
        /\ mv.value.distance = Least(PairingSums)

\* a positive distance that only the swapped pairing attains
C2_Witness ==
    /\ MvCalled /\ Len(proband_alleles) = 2 /\ NonEmptyParents /\ Returned(mv)
    /\ mv.value.distance > 0
    /\ \A f \in Elems(father_alleles), m \in Elems(mother_alleles) :
          Diff(proband_alleles[1], f) + Diff(proband_alleles[2], m) > mv.value.distance

\* C3: whenever is_mendelian_violation returns ok = true its distance is 0,
\* so the assertion of compute_mendelian_violations never fails.
C3_OkImpliesZeroDistance ==
    /\ (Returned(mv) /\ mv.value.ok) => mv.value.distance = 0
    /\ assertion # "failed"

\* the assertion was evaluated for a consistent two-allele proband
C3_Witness ==
    /\ pc = "done" /\ assertion = "passed"
    /\ Len(proband_alleles) = 2 /\ mv.value.ok /\ mv.value.distance = 0

\* C4 as amended: proband 17/19, father 15/16, mother 20/21, not chrX:
\* ok = false and distance = 2 = |17-16| + |19-20|.
C4_MismatchScenarioDistance2 ==
    (MvCalled /\ <<proband_alleles, father_alleles, mother_alleles>> = ScenarioMismatch
        /\ ~is_chrX_locus) =>
        /\ Returned(mv)
        /\ mv.value.ok = FALSE
        /\ mv.value.distance = 2

\* C4 as stated: proband 17/19, father 15/16, mother 20/21, not chrX:
\* ok = false and distance = 3.
C4_MismatchScenario ==
    (MvCalled /\ <<proband_alleles, father_alleles, mother_alleles>> = ScenarioMismatch
        /\ ~is_chrX_locus) =>
        /\ Returned(mv)
        /\ mv.value.ok = FALSE
        /\ mv.value.distance = 3

C4_Witness ==
    /\ MvCalled /\ <<proband_alleles, father_alleles, mother_alleles>> = ScenarioMismatch
    /\ ~is_chrX_locus /\ Returned(mv)

\* C5: for a one-allele proband, on chrX ok = (the allele is a maternal
\* allele) and distance = its minimum absolute difference to the maternal
\* alleles; off chrX ok = (the allele is an allele of either parent) and
\* distance = the smaller of its minimum differences to the father's and to
\* the mother's alleles.
C5_HaploidRule ==
    (MvCalled /\ Len(proband_alleles) = 1) =>
        /\ (is_chrX_locus /\ Len(mother_alleles) > 0) =>
              /\ Returned(mv)
              /\ mv.value.ok <=> proband_alleles[1] \in Elems(mother_alleles)
              /\ mv.value.distance =
                    Least({Diff(proband_alleles[1], m) : m \in Elems(mother_alleles)})
        /\ (~is_chrX_locus /\ NonEmptyParents) =>
              /\ Returned(mv)
              /\ mv.value.ok <=>
                    proband_alleles[1] \in Elems(father_alleles) \cup Elems(mother_alleles)
              /\ mv.value.distance =
                    Least({Diff(proband_alleles[1], x) :
                              x \in Elems(father_alleles) \cup Elems(mother_alleles)})

\* on chrX a proband allele that only the father has is a violation
C5_Witness ==
    /\ MvCalled /\ Len(proband_alleles) = 1 /\ NonEmptyParents /\ Returned(mv)
    /\ is_chrX_locus
    /\ proband_alleles[1] \in Elems(father_alleles)
    /\ ~mv.value.ok /\ mv.value.distance > 0

\* C6: for a one-allele proband on a chrX locus the father is ignored: with
\* the same proband and mother, every father genotype and every list of
\* father CIs gives the same outcome of is_mendelian_violation and of
\* is_mendelian_violation_with_CI.
C6_FatherIgnoredOnChrX ==
    (MvCiCalled /\ is_chrX_locus /\ Len(proband_alleles) = 1 /\ Len(proband_CIs) = 1) =>
        /\ \A fa \in ParentAlleleLists :
              is_mendelian_violation(proband_alleles, fa, mother_alleles, TRUE) = mv
        /\ \A fcs \in ParentCILists :
              is_mendelian_violation_with_CI(proband_CIs, fcs, mother_CIs, TRUE) = mv_ci

\* both verdicts were returned, the CI verdict being a violation although a
\* father CI overlaps the proband's
C6_Witness ==
    /\ MvCiCalled /\ is_chrX_locus /\ Len(proband_alleles) = 1 /\ Len(proband_CIs) = 1
    /\ Returned(mv) /\ Returned(mv_ci)
    /\ ~mv_ci.value.ok
    /\ \E k \in 1..Len(father_CIs) : intervals_overlap(proband_CIs[1], father_CIs[k])

\* C7: for a proband list whose length is not 1 or 2, is_mendelian_violation,
\* is_mendelian_violation_with_CI and determine_transmitted_alleles each raise
\* and return nothing.
C7_InvalidArityRaises ==
    /\ (MvCalled /\ Len(proband_alleles) \notin {1, 2}) => Raised(mv)
    /\ (MvCiCalled /\ Len(proband_CIs) \notin {1, 2}) => Raised(mv_ci)
    /\ (TaCalled /\ Len(proband_alleles) \notin {1, 2}) => Raised(ta)

\* the three functions were called with three proband alleles and CIs, and
\* non-empty parents
C7_Witness ==
    /\ Len(proband_alleles) = 3 /\ Len(proband_CIs) = 3 /\ NonEmptyParents
    /\ Raised(mv) /\ Raised(mv_ci) /\ Raised(ta)

\* C8: intervals_overlap(a, b) is true unless one interval's end is strictly
\* less than the other's begin; intervals that only touch overlap.
C8_OverlapUnlessStrictlyApart ==
    Returned(overlap) =>
        /\ ~overlap.value <=> (i1.end < i2.begin \/ i2.end < i1.begin)
        /\ (i1.end = i2.begin \/ i2.end = i1.begin) => overlap.value

\* two intervals of positive length that share exactly one endpoint
C8_Witness ==
    /\ Returned(overlap) /\ overlap.value
    /\ i1.begin < i1.end /\ i1.end = i2.begin /\ i2.begin < i2.end

\* C9: the interval distance used by the CI classifier is symmetric:
\* distance(a, b) = distance(b, a), point intervals included.
C9_DistanceSymmetric ==
    (Returned(dist) /\ Returned(dist_rev)) => dist.value = dist_rev.value

\* C10: intervals_overlap(a, b) holds if and only if the interval distance
\* used by compute_min_distance_mendelian_ci for (a, b) is 0.
C10_OverlapIffZeroDistance ==
    (Returned(overlap) /\ Returned(dist)) => (overlap.value <=> dist.value = 0)

\* a zero distance without overlap does not occur
ZeroDistanceImpliesOverlap ==
    (Returned(overlap) /\ Returned(dist) /\ dist.value = 0) => overlap.value

\* C11: for a non-empty candidate list get_nearest_parental_allele returns
\* (c, d) with d = |x - c| = compute_min_distance_mendelian(x, candidates) =
\* the least |x - c'| over the candidates, c being the first candidate of the
\* list at that distance.
C11_NearestIsFirstAtMinDistance ==
    (Returned(nearest) /\ Len(mother_alleles) > 0) =>
        LET x == proband_alleles[1]
            c == nearest.value[1]
            d == nearest.value[2]
        IN /\ d = Diff(x, c)
           /\ Returned(min_dist) /\ d = min_dist.value
           /\ d = Least({Diff(x, y) : y \in Elems(mother_alleles)})
           /\ \E k \in 1..Len(mother_alleles) :
                 /\ mother_alleles[k] = c
                 /\ \A j \in 1..(k - 1) : Diff(x, mother_alleles[j]) > d

\* two different candidates are at the least distance and the earlier one is
\* returned
C11_Witness ==
    /\ Returned(nearest) /\ Len(mother_alleles) > 1
    /\ \E j, k \in 1..Len(mother_alleles) :
          /\ j < k /\ mother_alleles[j] # mother_alleles[k]
          /\ Diff(proband_alleles[1], mother_alleles[j]) = nearest.value[2]
          /\ Diff(proband_alleles[1], mother_alleles[k]) = nearest.value[2]
          /\ nearest.value[1] = mother_alleles[j]
          /\ \A i \in 1..(j - 1) : Diff(proband_alleles[1], mother_alleles[i]) > nearest.value[2]

\* C12: compute_min_distance_mendelian, compute_min_distance_mendelian_ci and
\* get_nearest_parental_allele each raise, and return nothing, when the
\* candidate list is empty.
C12_EmptyCandidatesRaise ==
    /\ (min_dist.status # "pending" /\ Len(mother_alleles) = 0) => Raised(min_dist)
    /\ (min_dist_ci.status # "pending" /\ Len(mother_CIs) = 0) => Raised(min_dist_ci)
    /\ (nearest.status # "pending" /\ Len(mother_alleles) = 0) => Raised(nearest)

\* the three primitives were called with empty candidate lists
C12_Witness ==
    /\ Len(mother_alleles) = 0 /\ Len(mother_CIs) = 0
    /\ Raised(min_dist) /\ Raised(min_dist_ci) /\ Raised(nearest)

\* the classification rule shared by the two classifiers, for a membership
\* test Member(x, xs) and a minimum distance D(x, xs)
Rule(Member(_, _), D(_, _), p, f, m, chrX) ==
    IF Len(p) = 1 THEN
        IF chrX THEN [ok |-> Member(p[1], m), distance |-> D(p[1], m)]
        ELSE [ok |-> Member(p[1], f) \/ Member(p[1], m),
              distance |-> Min2(D(p[1], f), D(p[1], m))]
    ELSE [ok |-> (Member(p[1], f) /\ Member(p[2], m)) \/ (Member(p[2], f) /\ Member(p[1], m)),
          distance |-> Min2(D(p[1], f) + D(p[2], m), D(p[2], f) + D(p[1], m))]

IsAlleleOf(x, xs) == x \in Elems(xs)
LeastDiff(x, xs) == Least({Diff(x, y) : y \in Elems(xs)})
OverlapsSomeCI(x, xs) == \E y \in Elems(xs) : intervals_overlap(x, y)
LeastIntervalDistance(x, xs) == Least({ci_term(x, y) : y \in Elems(xs)})

NonEmptyParentCIs == Len(father_CIs) > 0 /\ Len(mother_CIs) > 0

\* C13: is_mendelian_violation_with_CI mirrors is_mendelian_violation in each
\* of the three arities: the same rule, with "is an allele of the parent"
\* replaced by "overlaps some CI of the parent" and the absolute difference
\* replaced by the interval distance.
C13_CIClassifierMirrorsExact ==
    (MvCiCalled /\ Len(proband_alleles) \in {1, 2} /\ Len(proband_CIs) \in {1, 2}
        /\ NonEmptyParents /\ NonEmptyParentCIs) =>
        /\ Returned(mv)
        /\ mv.value = Rule(IsAlleleOf, LeastDiff, proband_alleles, father_alleles,
                           mother_alleles, is_chrX_locus)
        /\ Returned(mv_ci)
        /\ mv_ci.value = Rule(OverlapsSomeCI, LeastIntervalDistance, proband_CIs, father_CIs,
                              mother_CIs, is_chrX_locus)

\* a two-CI proband that only the swapped pairing makes consistent
C13_Witness ==
    /\ MvCiCalled /\ Len(proband_CIs) = 2 /\ NonEmptyParentCIs /\ Returned(mv_ci)
    /\ mv_ci.value.ok
    /\ ~(OverlapsSomeCI(proband_CIs[1], father_CIs) /\ OverlapsSomeCI(proband_CIs[2], mother_CIs))

\* C14: for a one-allele proband on chrX, determine_transmitted_alleles leaves
\* both father fields null, sets proband_num_repeats_from_mother to the proband
\* allele and mother_transmitted_allele to the maternal allele nearest to it,
\* a single allele that is an element of mother_alleles.
C14_ChrXTransmittedFromMother ==
    (Returned(ta) /\ Len(proband_alleles) = 1 /\ is_chrX_locus) =>
        LET t == ta.value IN
        /\ t.father_transmitted_allele.kind = "None"
        /\ t.proband_num_repeats_from_father.kind = "None"
        /\ t.proband_num_repeats_from_mother.kind = "str"
        /\ t.proband_num_repeats_from_mother.str = proband_alleles[1]
        /\ t.mother_transmitted_allele.kind = "str"
        /\ t.mother_transmitted_allele.str \in Elems(mother_alleles)
        /\ Diff(proband_alleles[1], t.mother_transmitted_allele.str)
              = LeastDiff(proband_alleles[1], mother_alleles)

\* C15: for a one-allele proband off chrX, determine_transmitted_alleles gives
\* the allele to the parent whose nearest allele is closer, records that
\* parent's nearest allele (an element of that parent's list) as its
\* transmitted allele and leaves the other parent's two fields null.
C15_HaploidTransmittedFromCloserParent ==
    (Returned(ta) /\ Len(proband_alleles) = 1 /\ ~is_chrX_locus) =>
        LET t == ta.value
            x == proband_alleles[1]
            dF == LeastDiff(x, father_alleles)
            dM == LeastDiff(x, mother_alleles)
        IN /\ dF < dM =>
                /\ t.proband_num_repeats_from_father.kind = "str"
                /\ t.proband_num_repeats_from_father.str = x
                /\ t.father_transmitted_allele.kind = "str"
                /\ t.father_transmitted_allele.str \in Elems(father_alleles)
                /\ Diff(x, t.father_transmitted_allele.str) = dF
                /\ t.mother_transmitted_allele.kind = "None"
                /\ t.proband_num_repeats_from_mother.kind = "None"
           /\ dM < dF =>
                /\ t.proband_num_repeats_from_mother.kind = "str"
                /\ t.proband_num_repeats_from_mother.str = x
                /\ t.mother_transmitted_allele.kind = "str"
                /\ t.mother_transmitted_allele.str \in Elems(mother_alleles)
                /\ Diff(x, t.mother_transmitted_allele.str) = dM
                /\ t.father_transmitted_allele.kind = "None"
                /\ t.proband_num_repeats_from_father.kind = "None"

\* the summed nearest-allele distances of the two pairings
SumAllele1FromMother ==
    LeastDiff(proband_alleles[1], mother_alleles) + LeastDiff(proband_alleles[2], father_alleles)
SumAllele1FromFather ==
    LeastDiff(proband_alleles[1], father_alleles) + LeastDiff(proband_alleles[2], mother_alleles)

\* C16: for a two-allele proband determine_transmitted_alleles chooses, of
\* (allele1 -> mother, allele2 -> father) and (allele1 -> father, allele2 ->
\* mother), the pairing with the smaller summed nearest-allele distance, and
\* returns for each parent its allele nearest to the proband allele given to
\* it; the two proband alleles are each used once.
C16_DiploidTransmission ==
    (Returned(ta) /\ Len(proband_alleles) = 2) =>
        LET t == ta.value
            pf == t.proband_num_repeats_from_father
            pm == t.proband_num_repeats_from_mother
            ft == t.father_transmitted_allele
            mt == t.mother_transmitted_allele
        IN /\ pf.kind = "str" /\ pm.kind = "str" /\ ft.kind = "str" /\ mt.kind = "str"
           /\ \/ pf.str = proband_alleles[1] /\ pm.str = proband_alleles[2]
                   /\ SumAllele1FromFather <= SumAllele1FromMother
              \/ pf.str = proband_alleles[2] /\ pm.str = proband_alleles[1]
                   /\ SumAllele1FromMother <= SumAllele1FromFather
           /\ ft.str \in Elems(father_alleles)
           /\ Diff(pf.str, ft.str) = LeastDiff(pf.str, father_alleles)
           /\ mt.str \in Elems(mother_alleles)
           /\ Diff(pm.str, mt.str) = LeastDiff(pm.str, mother_alleles)

\* allele 1 went to the mother because that pairing's sum is strictly smaller,
\* and the two proband alleles differ in value
C16_Witness ==
    /\ Returned(ta) /\ Len(proband_alleles) = 2
    /\ SumAllele1FromMother < SumAllele1FromFather
    /\ int(proband_alleles[1]) # int(proband_alleles[2])
    /\ ta.value.proband_num_repeats_from_mother.str = proband_alleles[1]
    /\ ta.value.proband_num_repeats_from_father.str = proband_alleles[2]

\* C17: for a two-allele proband the reported transmission agrees with the
\* reported distance: |from_father - father_transmitted| + |from_mother -
\* mother_transmitted| = the distance of is_mendelian_violation.
C17_TransmissionAgreesWithDistance ==
    (Returned(ta) /\ Returned(mv) /\ Len(proband_alleles) = 2) =>
        LET t == ta.value IN
        Diff(t.proband_num_repeats_from_father.str, t.father_transmitted_allele.str)
            + Diff(t.proband_num_repeats_from_mother.str, t.mother_transmitted_allele.str)
          = mv.value.distance

\* a violation at a positive distance that only the swapped pairing attains
C17_Witness ==
    /\ Returned(ta) /\ Returned(mv) /\ Len(proband_alleles) = 2
    /\ ~mv.value.ok /\ mv.value.distance > 0
    /\ SumAllele1FromMother < SumAllele1FromFather

\* C28: for proband CIs of arity 1 or 2 and parent CIs with begin <= end,
\* point intervals included, is_mendelian_violation_with_CI returns distance 0
\* whenever it returns ok = true.
C28_CIOkImpliesZeroDistance ==
    (Returned(mv_ci) /\ Len(proband_CIs) \in {1, 2} /\ mv_ci.value.ok)
        => mv_ci.value.distance = 0

\* the allele string is what str() gives for its value: no leading zero
Canonical(x) == x = Str(int(x))
CanonicalAlleles ==
    \A x \in Elems(proband_alleles) \cup Elems(father_alleles) \cup Elems(mother_alleles) :
        Canonical(x)

\* C29: for canonical alleles and a proband of arity 1 or 2,
\* is_mendelian_violation returns a distance greater than 0 whenever it returns
\* ok = false, so that ok = true if and only if distance = 0.
C29_ViolationHasPositiveDistance ==
    (Returned(mv) /\ Len(proband_alleles) \in {1, 2} /\ CanonicalAlleles) =>
        /\ ~mv.value.ok => mv.value.distance > 0
        /\ mv.value.ok <=> mv.value.distance = 0

\* a violation by a proband allele that is shorter than every parental allele
C29_Witness ==
    /\ Returned(mv) /\ Len(proband_alleles) \in {1, 2} /\ CanonicalAlleles
    /\ ~mv.value.ok /\ mv.value.distance > 0
    /\ \A x \in Elems(father_alleles) \cup Elems(mother_alleles) :
          int(proband_alleles[1]) < int(x)

\* C30: for a one-allele proband off chrX whose nearest paternal and nearest
\* maternal alleles are equally far, the allele is attributed to the mother
\* (proband_num_repeats_from_mother is set, both father fields are null); the
\* father is chosen only when strictly closer.
C30_TieGoesToMother ==
    (Returned(ta) /\ Len(proband_alleles) = 1 /\ ~is_chrX_locus) =>
        LET t == ta.value
            x == proband_alleles[1]
            dF == LeastDiff(x, father_alleles)
            dM == LeastDiff(x, mother_alleles)
        IN /\ dF = dM =>
                /\ t.proband_num_repeats_from_mother = Allele(x)
                /\ t.father_transmitted_allele = None
                /\ t.proband_num_repeats_from_father = None
           /\ t.proband_num_repeats_from_father # None => dF < dM
           /\ t.father_transmitted_allele # None => dF < dM

\* a tie at a positive distance, the parents' nearest alleles being different
C30_Witness ==
    /\ Returned(ta) /\ Len(proband_alleles) = 1 /\ ~is_chrX_locus
    /\ LeastDiff(proband_alleles[1], father_alleles) = LeastDiff(proband_alleles[1], mother_alleles)
    /\ LeastDiff(proband_alleles[1], father_alleles) > 0
    /\ ta.value.proband_num_repeats_from_mother = Allele(proband_alleles[1])

(***************************************************************************)
(* Trio grouping                                                           *)
(***************************************************************************)
Grouped == pc = "done"
RowsOf(rows) == {rows[n] : n \in DOMAIN rows}
Probands == {trio_rows[n][1] : n \in DOMAIN trio_rows}
HasParentIds(row) == ~isna(row.father_id) /\ ~isna(row.mother_id)
\* the input table has a row of the sample parent_id at the row's (LocusId, VariantId)
Resolves(row, parent_id) ==
    \E r \in RowsOf(df) : /\ r.SampleId = parent_id
                          /\ r.LocusId = row.LocusId
                          /\ r.VariantId = row.VariantId

\* C18: every triple of trio_rows holds the proband's father row and mother
\* row, all three at the same (LocusId, VariantId), and every input row whose
\* father_id and mother_id both resolve at its (LocusId, VariantId) is the
\* proband of exactly one triple.
C18_TriosAreMatched ==
    Grouped =>
        /\ \A n \in DOMAIN trio_rows :
              LET row == trio_rows[n][1]
                  father_row == trio_rows[n][2]
                  mother_row == trio_rows[n][3]
              IN /\ father_row.SampleId = row.father_id
                 /\ mother_row.SampleId = row.mother_id
                 /\ father_row.LocusId = row.LocusId /\ mother_row.LocusId = row.LocusId
                 /\ father_row.VariantId = row.VariantId /\ mother_row.VariantId = row.VariantId
        /\ \A row \in RowsOf(df) :
              Resolves(row, row.father_id) /\ Resolves(row, row.mother_id)
                  => Cardinality({n \in DOMAIN trio_rows : trio_rows[n][1] = row}) = 1

C18_Witness ==
    /\ Grouped
    /\ Len(trio_rows) = 1
    /\ other_rows # <<>>

C20_OutputsPartitionInput ==
    Grouped =>
        \A row \in RowsOf(df) : (row \in Probands) # (row \in RowsOf(other_rows))

\* C24: a triple is in trio_rows only when the proband, the father and the
\* mother each have a genotype at that (LocusId, VariantId): no row of a triple
\* has a missing Genotype.
C24_TriosHaveGenotypes ==
    \A n \in DOMAIN trio_rows :
        \A j \in 1..3 : ~isna(trio_rows[n][j].Genotype)

(***************************************************************************)
(* Loading                                                                 *)
(***************************************************************************)
\* the pedigree line names no father or no mother
NoKnownParent(r) ==
    \/ isna(r.father_id) \/ r.father_id = Cell("0")
    \/ isna(r.mother_id) \/ r.mother_id = Cell("0")

\* C21: a sample with a pedigree record whose father id or mother id is
\* missing or "0" is never the proband of a triple of trio_rows.
C21_NoKnownParentNeverProband ==
    \A r \in RowsOf(fam_file) :
        NoKnownParent(r) =>
            \A n \in DOMAIN trio_rows : trio_rows[n][1].SampleId # Cell(r.individual_id)

\* the same, for pedigree files that name each individual once
NoKnownParentNeverProbandUniqueIds ==
    (\A j, n \in DOMAIN fam_file : fam_file[j].individual_id = fam_file[n].individual_id => j = n)
        => C21_NoKnownParentNeverProband

\* a key occurs more than once in a file
CallsKeyTwice ==
    \E j, n \in DOMAIN calls_file : j # n /\ Key(calls_file[j]) = Key(calls_file[n])
FamKeyTwice ==
    \E j, n \in DOMAIN fam_file : j # n /\ fam_file[j].individual_id = fam_file[n].individual_id

\* C22: when the calls file has a (SampleId, LocusId, VariantId) twice or the
\* pedigree file an individual id twice, loading raises, and nothing is joined
\* or grouped: once both parsers have been given their chance the program has
\* failed, and no triple is ever formed.
C22_DuplicateKeysAreFatal ==
    (CallsKeyTwice \/ FamKeyTwice) =>
        /\ pc \in {"parse_combined_str_calls_tsv_path", "parse_fam_file", "failed"}
        /\ trio_rows = <<>>

\* a duplicate (SampleId, LocusId, VariantId) of the calls file is fatal
DuplicateCallsKeysAreFatal ==
    CallsKeyTwice => /\ pc \in {"parse_combined_str_calls_tsv_path", "failed"}
                     /\ trio_rows = <<>>

(***************************************************************************)
(* compute_mendelian_violations                                            *)
(***************************************************************************)
\* ci is "begin-end", two strings of digits
WellFormedCI(ci) ==
    LET parts == split(ci, "-")
    IN Len(parts) = 2 /\ IsDigits(parts[1]) /\ IsDigits(parts[2])

\* the genotype or the CI of the row has an arity outside {1, 2}, or a CI is
\* unparseable
InvalidRow(row) ==
    \/ Len(split(row.Genotype, "/")) \notin {1, 2}
    \/ Len(split(row.GenotypeConfidenceInterval, "/")) \notin {1, 2}
    \/ \E ci \in Elems(split(row.GenotypeConfidenceInterval, "/")) : ~WellFormedCI(ci)

InvalidTrio(t) == \E j \in 1..3 : InvalidRow(t[j])

\* the results row of a trio, from its three rows alone
RecordOf(t) == classify_trio(t[1], t[2], t[3]).value.results_row

\* compute_mendelian_violations has returned or raised
Computed == pc \in {"returned", "failed"}

\* C23: an invalid trio row fails alone: the records returned for the other
\* trios are those that would be returned had the invalid trio been absent.
C23_InvalidRowIsConfined ==
    (/\ Computed
     /\ \E n \in DOMAIN trio_rows : InvalidTrio(trio_rows[n])
     /\ \E n \in DOMAIN trio_rows : ~InvalidTrio(trio_rows[n])) =>
        LET valid == SelectSeq(trio_rows, LAMBDA t : ~InvalidTrio(t))
        IN /\ Returned(cmv)
           /\ cmv.value = [n \in DOMAIN valid |-> RecordOf(valid[n])]

\* C25: the record of a trio is a function of its three rows: it is what the
\* loop body gives for these rows, whatever was processed before, and equal
\* trios at different places of the list get equal records.
C25_RecordDependsOnTrioOnly ==
    /\ \A n \in DOMAIN results_rows : results_rows[n] = RecordOf(trio_rows[n])
    /\ \A n, k \in DOMAIN results_rows :
          trio_rows[n] = trio_rows[k] => results_rows[n] = results_rows[k]

\* a violating trio was classified first and again after a different trio
C25_Witness ==
    /\ Returned(cmv) /\ Len(cmv.value) = 3
    /\ trio_rows[1] = trio_rows[3] /\ trio_rows[1] # trio_rows[2]
    /\ results_rows[1].MendelianViolationDistance > 0
    /\ results_rows[2].MendelianViolationDistance > 0
    /\ results_rows[3] = results_rows[1]

\* the trio with its reference region replaced by one of 9 base pairs
WithExactRegion(t) == [j \in 1..3 |-> [t[j] EXCEPT !.ReferenceRegion = RegionExact]]

Verdicts(row) ==
    <<row.IsMendelianViolation, row.IsMendelianViolationCI,
      row.MendelianViolationDistance, row.MendelianViolationDistanceCI>>

\* C26: a reference region whose span is not a multiple of the repeat unit
\* length only produces a warning: the results row of the trio is appended
\* with the verdicts and distances of the same trio at an exact-multiple
\* region, and the loop goes on; it only ever stops at an invalid trio.
C26_InexactRegionOnlyWarns ==
    /\ \A n \in DOMAIN results_rows :
          trio_rows[n][1].ReferenceRegion = RegionInexact =>
              /\ RegionInexact \in Elems(warnings)
              /\ Verdicts(results_rows[n]) = Verdicts(RecordOf(WithExactRegion(trio_rows[n])))
    /\ pc = "failed" => InvalidTrio(trio_rows[row_index])
    /\ Returned(cmv) => Len(cmv.value) = Len(trio_rows)

\* a violating trio with a region of 10 base pairs was classified, then another
\* trio, and both rows were returned
C26_Witness ==
    /\ Returned(cmv) /\ Len(cmv.value) >= 2
    /\ trio_rows[1][1].ReferenceRegion = RegionInexact
    /\ trio_rows[2][1].ReferenceRegion # RegionInexact
    /\ warnings = <<RegionInexact>>
    /\ cmv.value[1].IsMendelianViolation /\ cmv.value[1].MendelianViolationDistance = 2

\* the trios of a counter's locus, and those of them with a violation
TriosAt(name) == {n \in DOMAIN trio_rows : counter_name(trio_rows[n][1]) = name}
ViolationsAt(name) == {n \in TriosAt(name) : results_rows[n].IsMendelianViolation}
ViolationsCIAt(name) == {n \in TriosAt(name) : results_rows[n].IsMendelianViolationCI}

\* the line reports count violations among the trios of its locus
LineIsRight(line, count) ==
    LET at == Cardinality(TriosAt(line.name))
    IN /\ line.c = count
       /\ 2 * Abs(line.percent * at - 100 * count) <= at
       /\ count = at => line.percent = 100

\* C27: after all trios are processed the count reported for a locus is the
\* number of its classified trios with a violation, and the percentage is that
\* count as a share of the trios classified at the locus (100 when all of them
\* violate), for the exact and for the CI verdict.
C27_CountsAndPercentagesPerLocus ==
    Returned(cmv) =>
        /\ \A k \in DOMAIN report.exact :
              LineIsRight(report.exact[k], Cardinality(ViolationsAt(report.exact[k].name)))
        /\ \A k \in DOMAIN report.ci :
              LineIsRight(report.ci[k], Cardinality(ViolationsCIAt(report.ci[k].name)))
        /\ \A n \in DOMAIN trio_rows :
              /\ results_rows[n].IsMendelianViolation =>
                    \E k \in DOMAIN report.exact :
                        report.exact[k].name = counter_name(trio_rows[n][1])
              /\ results_rows[n].IsMendelianViolationCI =>
                    \E k \in DOMAIN report.ci :
                        report.ci[k].name = counter_name(trio_rows[n][1])

\* the counts alone are those of the violations at each locus
ReportedCountsPerLocus ==
    Returned(cmv) =>
        /\ \A k \in DOMAIN report.exact :
              report.exact[k].c = Cardinality(ViolationsAt(report.exact[k].name))
        /\ \A k \in DOMAIN report.ci :
              report.ci[k].c = Cardinality(ViolationsCIAt(report.ci[k].name))

====
